---- MODULE Spec2Model ----
(***************************************************************************)
(* Model of src/elevator_management_system.py: the Elevator state object,  *)
(* the assignment policy schedule_elevator, the scheduling session loop    *)
(* user_driven_scheduling and the estimator                                *)
(* calculate_elevator_requirements.                                        *)
(*                                                                         *)
(* Python floats are modelled as exact rationals <<numerator, denominator>>*)
(* with a positive denominator; float('inf') is the pair <<1, 0>>.         *)
(***************************************************************************)
EXTENDS Integers, Sequences, FiniteSets, TLC

VARIABLES
    elevators,   \* the list of Elevator objects (the fleet)
    config,      \* arguments of user_driven_scheduling: floors, floor_height, ...
    locals,      \* locals of the session loop: request_floor, direction, ...
    pc,          \* position of the program
    output,      \* the last message printed
    calls,       \* the most recent direct calls made on an Elevator (call log)
    estimation   \* main() in estimation mode: inputs read and the result

vars == <<elevators, config, locals, pc, output, calls, estimation>>

-----------------------------------------------------------------------------
(* Bounds of the model *)

\* floors used as arguments of direct Elevator calls
HarnessFloors == 2
\* number of elevators of a fleet driven by direct calls
FleetSize == 2
\* number of elevators of a session whose fleet also receives direct calls
WaitFleetSize == 1
\* number of direct calls the call log remembers
LogLen == 3
\* largest floor count of a scheduling session
MaxFloors == 4
\* largest number of elevators of a scheduling session
MaxElevators == 2
\* estimator inputs
MaxEstFloors == 10
MaxPeople == 300
MaxHalfMetres == 6

-----------------------------------------------------------------------------
(* Python values *)

\* None (also the value of a local that is not bound yet)
None == 0

\* float('inf')
Inf == <<1, 0>>

\* an int used as a float
Rat(n) == <<n, 1>>

RatAdd(a, b) == <<a[1] * b[2] + b[1] * a[2], a[2] * b[2]>>

RatMul(a, b) == <<a[1] * b[1], a[2] * b[2]>>

\* a / b for b > 0
RatDiv(a, b) == <<a[1] * b[2], a[2] * b[1]>>

RatNeg(a) == <<-a[1], a[2]>>

\* a < b (also against Inf)
RatLess(a, b) == a[1] * b[2] < b[1] * a[2]

RatLeq(a, b) == a[1] * b[2] <= b[1] * a[2]

RatEq(a, b) == a[1] * b[2] = b[1] * a[2]

RatIsZero(a) == a[1] = 0

\* a // b on floats: the floor of the quotient
RatFloorDiv(a, b) == (a[1] * b[2]) \div (a[2] * b[1])

abs(x) == IF x < 0 THEN -x ELSE x

-----------------------------------------------------------------------------
(* class Elevator *)

Elevator(eid, capacity) ==
    [eid |-> eid, capacity |-> capacity, current_floor |-> 1, direction |-> 0,
     passengers |-> 0, stops |-> {}, idle |-> TRUE]

\* estimated_arrival with the abs of line 133 left out
estimated_arrival_signed(self, request_floor, avg_stop_time, floor_height, elevator_speed) ==
    LET travel_floors == self.current_floor - request_floor
        travel_time == RatDiv(RatMul(Rat(travel_floors), floor_height), elevator_speed)
    IN  RatAdd(travel_time, Rat(IF ~self.idle THEN avg_stop_time ELSE 0))

\* estimated_arrival with the condition of line 136 inverted
estimated_arrival_idle_penalty(self, request_floor, avg_stop_time, floor_height, elevator_speed) ==
    LET travel_floors == abs(self.current_floor - request_floor)
        travel_time == RatDiv(RatMul(Rat(travel_floors), floor_height), elevator_speed)
    IN  RatAdd(travel_time, Rat(IF self.idle THEN avg_stop_time ELSE 0))

estimated_arrival(self, request_floor, avg_stop_time, floor_height, elevator_speed) ==
    LET travel_floors == abs(self.current_floor - request_floor)
        travel_time == RatDiv(RatMul(Rat(travel_floors), floor_height), elevator_speed)
    IN  RatAdd(travel_time, Rat(IF ~self.idle THEN avg_stop_time ELSE 0))

\* estimated_arrival leaving the elevator at the floor it computed for
estimated_arrival_moves(self, request_floor) ==
    [self EXCEPT !.current_floor = request_floor]

\* the Elevator after estimated_arrival: lines 133-136 assign no attribute
estimated_arrival_effect(self, request_floor) == self

\* assign_request that also puts the elevator at the requested floor
assign_request_jumps(self, request_floor, direction) ==
    [self EXCEPT !.stops = @ \cup {request_floor},
                 !.direction = IF direction = "up" THEN 1 ELSE -1,
                 !.idle = FALSE,
                 !.current_floor = request_floor]

\* assign_request that sets the direction on the first pending stop only
assign_request_keeps_direction(self, request_floor, direction) ==
    [self EXCEPT !.stops = @ \cup {request_floor},
                 !.direction = IF self.stops = {}
                               THEN (IF direction = "up" THEN 1 ELSE -1)
                               ELSE @,
                 !.idle = FALSE]

\* assign_request with line 141 left out: the idle flag stays set
assign_request_keeps_idle(self, request_floor, direction) ==
    [self EXCEPT !.stops = @ \cup {request_floor},
                 !.direction = IF direction = "up" THEN 1 ELSE -1]

assign_request(self, request_floor, direction) ==
    [self EXCEPT !.stops = @ \cup {request_floor},
                 !.direction = IF direction = "up" THEN 1 ELSE -1,
                 !.idle = FALSE]

\* move_to with line 148 left out: the direction survives the last stop
move_to_keeps_direction(self, request_floor) ==
    LET stops == self.stops \ {request_floor}
    IN  IF stops = {}
        THEN [self EXCEPT !.current_floor = request_floor, !.stops = stops,
                          !.idle = TRUE]
        ELSE [self EXCEPT !.current_floor = request_floor, !.stops = stops]

\* move_to with line 145 left out: the stop reached is not removed
move_to_no_discard(self, request_floor) ==
    IF self.stops = {}
    THEN [self EXCEPT !.current_floor = request_floor, !.idle = TRUE, !.direction = 0]
    ELSE [self EXCEPT !.current_floor = request_floor]

move_to(self, request_floor) ==
    LET stops == self.stops \ {request_floor}
    IN  IF stops = {}
        THEN [self EXCEPT !.current_floor = request_floor, !.stops = stops,
                          !.idle = TRUE, !.direction = 0]
        ELSE [self EXCEPT !.current_floor = request_floor, !.stops = stops]

-----------------------------------------------------------------------------
(* Values of variables a specification does not use *)

NoConfig == [floors |-> 0, num_elevators |-> 0, elevator_capacity |-> 0,
             floor_height |-> Rat(0)]

NoLocals == [request_floor |-> None, direction |-> "", dest_floor |-> None,
             best_elevator |-> None, eta |-> Inf, another |-> ""]

NoEstimation == [mode |-> "", floors |-> 0, total_people |-> 0,
                 max_wait_time |-> Rat(0), floor_height |-> Rat(0),
                 preferred_capacity |-> None, outcome |-> <<>>]

-----------------------------------------------------------------------------
(* Direct calls on one Elevator: a freshly created Elevator driven by any   *)
(* sequence of assign_request and move_to calls.                            *)

AnyDirection == {"up", "down", "sideways"}

HarnessFloorArgs == 1 .. HarnessFloors

\* the call log keeps the last LogLen calls; each entry records the call, its
\* arguments (direction is "" for move_to, which has none) and whether the
\* elevator was idle with empty stops when the call was made
Logged(log, entry) ==
    LET all == Append(log, entry)
    IN  IF Len(all) > LogLen THEN Tail(all) ELSE all

Fresh(self) == self.idle /\ self.stops = {}

InitElevator ==
    /\ elevators = <<Elevator(1, 12)>>
    /\ config = NoConfig
    /\ locals = NoLocals
    /\ pc = "elevator"
    /\ output = ""
    /\ calls = <<>>
    /\ estimation = NoEstimation

CallAssignRequest ==
    \E floor \in HarnessFloorArgs, direction \in AnyDirection :
        /\ elevators' = [elevators EXCEPT ![1] = assign_request(@, floor, direction)]
        /\ calls' = Logged(calls, [op |-> "assign_request", floor |-> floor,
                                   direction |-> direction,
                                   fresh |-> Fresh(elevators[1])])
        /\ UNCHANGED <<config, locals, pc, output, estimation>>

CallMoveTo ==
    \E floor \in HarnessFloorArgs :
        /\ elevators' = [elevators EXCEPT ![1] = move_to(@, floor)]
        /\ calls' = Logged(calls, [op |-> "move_to", floor |-> floor,
                                   direction |-> "",
                                   fresh |-> Fresh(elevators[1])])
        /\ UNCHANGED <<config, locals, pc, output, estimation>>

NextElevator == CallAssignRequest \/ CallMoveTo

SpecElevator == InitElevator /\ [][NextElevator]_vars

-----------------------------------------------------------------------------
(* schedule_elevator *)

\* line 158 without the direction test: only idle elevators are candidates
eligible_idle_only(elev, direction) == elev.idle

\* line 158 without any test: every elevator is a candidate
eligible_any(elev, direction) == TRUE

\* line 158: the elevator is idle or moves in the requested direction
eligible(elev, direction) ==
    elev.idle \/ elev.direction = (IF direction = "up" THEN 1 ELSE -1)

\* line 160 with <= for <: the last of several equal candidates wins
better_or_equal(eta, best_eta) == RatLeq(eta, best_eta)

\* line 160: the candidate replaces the best one found so far
better(eta, best_eta) == RatLess(eta, best_eta)

\* the for loop of lines 157-162, from the i-th elevator on;
\* best is <<best_elevator, best_eta>>, best_elevator an index into elevs
RECURSIVE schedule_loop(_, _, _, _, _, _, _, _)
schedule_loop(elevs, i, best, request_floor, direction, avg_stop_time, floor_height, elevator_speed) ==
    IF i > Len(elevs)
    THEN best
    ELSE LET elev == elevs[i]
             eta == estimated_arrival(elev, request_floor, avg_stop_time,
                                      floor_height, elevator_speed)
             next == IF eligible(elev, direction) /\ better(eta, best[2])
                     THEN <<i, eta>>
                     ELSE best
         IN  schedule_loop(elevs, i + 1, next, request_floor, direction,
                           avg_stop_time, floor_height, elevator_speed)

schedule_elevator(elevs, request_floor, direction, avg_stop_time, floor_height, elevator_speed) ==
    schedule_loop(elevs, 1, <<None, Inf>>, request_floor, direction,
                  avg_stop_time, floor_height, elevator_speed)

\* the list after schedule_elevator: the loop assigns only its own locals
\* and calls estimated_arrival on every candidate
schedule_elevator_effect(elevs, request_floor, direction) ==
    [i \in 1 .. Len(elevs) |->
        IF eligible(elevs[i], direction)
        THEN estimated_arrival_effect(elevs[i], request_floor)
        ELSE elevs[i]]

-----------------------------------------------------------------------------
(* user_driven_scheduling *)

avg_stop_time == 10

elevator_speed == <<3, 2>>

\* what get_direction returns
Directions == {"up", "down"}

\* floor heights the operator enters, in metres
FloorHeights == {Rat(3), Rat(16)}

Capacities == {12}

\* line 168
NewFleet(num_elevators, elevator_capacity) ==
    [i \in 1 .. num_elevators |-> Elevator(i, elevator_capacity)]

Init ==
    /\ \E floors \in 1 .. MaxFloors, num_elevators \in 1 .. MaxElevators,
          elevator_capacity \in Capacities, floor_height \in FloorHeights :
            /\ config = [floors |-> floors, num_elevators |-> num_elevators,
                         elevator_capacity |-> elevator_capacity,
                         floor_height |-> floor_height]
            /\ elevators = NewFleet(num_elevators, elevator_capacity)
    /\ locals = NoLocals
    /\ pc = "loop"
    /\ output = "header"
    /\ calls = <<>>
    /\ estimation = NoEstimation

\* line 175 with the lower bound only
valid_floor_unbounded(request_floor, floors) == 1 <= request_floor

\* line 175: the origin floor is accepted
valid_floor(request_floor, floors) ==
    1 <= request_floor /\ request_floor <= floors

\* line 180 without the comparison with the origin floor
valid_destination_in_range(dest_floor, request_floor, floors) ==
    1 <= dest_floor /\ dest_floor <= floors

\* line 180: the destination floor is accepted
valid_destination(dest_floor, request_floor, floors) ==
    ~(~(1 <= dest_floor /\ dest_floor <= floors) \/ dest_floor = request_floor)

\* lines 171-183: the status is printed, the request is read and validated and
\* schedule_elevator is called; get_positive_int returns any positive integer.
\* Every local of the request is assigned before it is read in an iteration,
\* so what an iteration leaves in them is never observed by the next one: the
\* model unbinds them whenever control returns to the top of the loop.
ReadRequest ==
    /\ pc = "loop"
    /\ \E request_floor \in 1 .. config.floors + 1, direction \in Directions,
          dest_floor \in 1 .. config.floors + 1 :
        IF ~valid_floor(request_floor, config.floors)
        THEN /\ locals' = NoLocals
             /\ output' = "invalid_floor"
             /\ pc' = "loop"
             /\ elevators' = elevators
        ELSE IF ~valid_destination(dest_floor, request_floor, config.floors)
        THEN /\ locals' = NoLocals
             /\ output' = "invalid_destination"
             /\ pc' = "loop"
             /\ elevators' = elevators
        ELSE LET r == schedule_elevator(elevators, request_floor, direction,
                                        avg_stop_time, config.floor_height,
                                        elevator_speed)
             IN  /\ locals' = [NoLocals EXCEPT !.request_floor = request_floor,
                                               !.direction = direction,
                                               !.dest_floor = dest_floor,
                                               !.best_elevator = r[1],
                                               !.eta = r[2]]
                 /\ output' = "status"
                 /\ pc' = "scheduled"
                 /\ elevators' = schedule_elevator_effect(elevators, request_floor,
                                                         direction)
    /\ UNCHANGED <<config, calls, estimation>>

\* lines 184-192
Dispatch ==
    /\ pc = "scheduled"
    /\ IF locals.best_elevator = None
       THEN /\ output' = "no_elevator"
            /\ pc' = "loop"
            /\ locals' = NoLocals
            /\ UNCHANGED elevators
       ELSE /\ elevators' = [elevators EXCEPT ![locals.best_elevator] =
                                assign_request(@, locals.request_floor, locals.direction)]
            /\ output' = "assigned"
            /\ pc' = "assigned"
            /\ UNCHANGED locals
    /\ UNCHANGED <<config, calls, estimation>>

\* lines 194-195
Pickup ==
    /\ pc = "assigned"
    /\ elevators' = [elevators EXCEPT ![locals.best_elevator] =
                        move_to(@, locals.request_floor)]
    /\ output' = "boarded"
    /\ pc' = "boarded"
    /\ UNCHANGED <<config, locals, calls, estimation>>

\* lines 197-204
Dropoff ==
    /\ pc = "boarded"
    /\ elevators' = [elevators EXCEPT ![locals.best_elevator] =
                        move_to(@, locals.dest_floor)]
    /\ output' = "summary"
    /\ pc' = "ask"
    /\ UNCHANGED <<config, locals, calls, estimation>>

\* what the operator answers to the continuation prompt, stripped and lowered
Answers == {"y", "n", "yes"}

\* line 207 with the test inverted
declines_on_y(another) == another = "y"

\* line 207 with the test another == 'n'
declines_only_n(another) == another = "n"

\* line 207: the answer ends the loop
declines(another) == another # "y"

\* lines 206-209; another holds the answer until the next request is read
AskAnother ==
    /\ pc = "ask"
    /\ \E another \in Answers :
        IF declines(another)
        THEN /\ locals' = [locals EXCEPT !.another = another]
             /\ pc' = "done"
             /\ output' = "end"
        ELSE /\ locals' = [NoLocals EXCEPT !.another = another]
             /\ pc' = "loop"
             /\ output' = "summary"
    /\ UNCHANGED <<elevators, config, calls, estimation>>

Next == ReadRequest \/ Dispatch \/ Pickup \/ Dropoff \/ AskAnother

Spec == Init /\ [][Next]_vars

\* the session with a program that keeps running and an operator who, when
\* prompted, eventually enters a valid request and eventually answers "n"
ValidRequest == ReadRequest /\ pc' = "scheduled"

AnswerN == AskAnother /\ locals'.another = "n"

SpecOperator ==
    /\ Spec
    /\ WF_vars(Dispatch)
    /\ WF_vars(Pickup)
    /\ WF_vars(Dropoff)
    /\ WF_vars(ValidRequest)
    /\ SF_vars(AnswerN)

-----------------------------------------------------------------------------
(* Direct calls on a fleet: every elevator of a list receives any sequence   *)
(* of assign_request and move_to calls, and schedule_elevator is called on   *)
(* the list with any request; the call log holds the call and its result     *)
(* until the caller has taken it.                                            *)

InitFleet ==
    /\ \E num_elevators \in 0 .. FleetSize :
            elevators = NewFleet(num_elevators, 12)
    /\ config = NoConfig
    /\ locals = NoLocals
    /\ pc = "fleet"
    /\ output = ""
    /\ calls = <<>>
    /\ estimation = NoEstimation

FleetAssignRequest ==
    /\ pc = "fleet"
    /\ calls = <<>>
    /\ \E i \in 1 .. Len(elevators), floor \in HarnessFloorArgs, direction \in AnyDirection :
        elevators' = [elevators EXCEPT ![i] = assign_request(@, floor, direction)]
    /\ UNCHANGED <<config, locals, pc, output, calls, estimation>>

FleetMoveTo ==
    /\ pc = "fleet"
    /\ calls = <<>>
    /\ \E i \in 1 .. Len(elevators), floor \in HarnessFloorArgs :
        elevators' = [elevators EXCEPT ![i] = move_to(@, floor)]
    /\ UNCHANGED <<config, locals, pc, output, calls, estimation>>

FleetSchedule ==
    /\ pc = "fleet"
    /\ calls = <<>>
    /\ \E request_floor \in HarnessFloorArgs, direction \in Directions,
          floor_height \in FloorHeights :
        LET r == schedule_elevator(elevators, request_floor, direction,
                                   avg_stop_time, floor_height, elevator_speed)
        IN  /\ calls' = <<[op |-> "schedule_elevator", request_floor |-> request_floor,
                            direction |-> direction, floor_height |-> floor_height,
                            best_elevator |-> r[1], best_eta |-> r[2]]>>
            /\ elevators' = schedule_elevator_effect(elevators, request_floor, direction)
    /\ UNCHANGED <<config, locals, pc, output, estimation>>

FleetReturn ==
    /\ pc = "fleet"
    /\ calls # <<>>
    /\ calls' = <<>>
    /\ UNCHANGED <<elevators, config, locals, pc, output, estimation>>

NextFleet == FleetAssignRequest \/ FleetMoveTo \/ FleetSchedule \/ FleetReturn

SpecFleet == InitFleet /\ [][NextFleet]_vars

-----------------------------------------------------------------------------
(* The session loop over any fleet: between two iterations the elevators of  *)
(* the session may receive direct assign_request and move_to calls, so that  *)
(* the loop body meets fleet states a session alone does not produce, an     *)
(* empty fleet included.                                                     *)

InitWait ==
    /\ \E num_elevators \in 0 .. WaitFleetSize, floor_height \in FloorHeights :
            /\ config = [floors |-> HarnessFloors, num_elevators |-> num_elevators,
                         elevator_capacity |-> 12, floor_height |-> floor_height]
            /\ elevators = NewFleet(num_elevators, 12)
    /\ locals = NoLocals
    /\ pc = "loop"
    /\ output = "header"
    /\ calls = <<>>
    /\ estimation = NoEstimation

WaitAssignRequest ==
    /\ pc = "loop"
    /\ \E i \in 1 .. Len(elevators), floor \in HarnessFloorArgs, direction \in AnyDirection :
        elevators' = [elevators EXCEPT ![i] = assign_request(@, floor, direction)]
    /\ UNCHANGED <<config, locals, pc, output, calls, estimation>>

WaitMoveTo ==
    /\ pc = "loop"
    /\ \E i \in 1 .. Len(elevators), floor \in HarnessFloorArgs :
        elevators' = [elevators EXCEPT ![i] = move_to(@, floor)]
    /\ UNCHANGED <<config, locals, pc, output, calls, estimation>>

NextWait ==
    \/ WaitAssignRequest
    \/ WaitMoveTo
    \/ ReadRequest
    \/ Dispatch
    \/ Pickup
    \/ Dropoff
    \/ AskAnother

SpecWait == InitWait /\ [][NextWait]_vars

-----------------------------------------------------------------------------
(* calculate_elevator_requirements *)

peak_period == 300

default_capacity == 12

\* line 68 with the half rounded up
stops_rounded_up(floors) == (floors + 1) \div 2

\* line 68: floors // 2
stops_per_trip(floors) == floors \div 2

\* line 80 without the two negations: the quotient is rounded down
floor_division(total_people, people_per_elevator) ==
    RatFloorDiv(Rat(total_people), people_per_elevator)

\* line 80: int(-(-total_people // people_per_elevator))
ceiling_division(total_people, people_per_elevator) ==
    -RatFloorDiv(RatNeg(Rat(total_people)), people_per_elevator)

\* The outcome is <<"return", summary>>, or <<"raise", error, frame>> with the
\* locals bound when line 76 divides by zero. avg_stop_time and elevator_speed
\* are set to the session's values on lines 61 and 62.
calculate_elevator_requirements(floors, total_people, max_wait_time, floor_height, preferred_capacity) ==
    LET travel_time == RatMul(RatDiv(RatMul(Rat(floors - 1), floor_height),
                                     elevator_speed), Rat(2))
        stops == stops_per_trip(floors)
        stop_time == stops * avg_stop_time
        avg_trip_time == RatAdd(travel_time, Rat(stop_time))
        elevator_capacity == IF preferred_capacity # None /\ preferred_capacity # 0
                             THEN preferred_capacity
                             ELSE default_capacity
        trips_per_elevator == RatDiv(Rat(peak_period), avg_trip_time)
        people_per_elevator == RatMul(trips_per_elevator, Rat(elevator_capacity))
        elevators_required == ceiling_division(total_people, people_per_elevator)
    IN  IF RatIsZero(avg_trip_time)
        THEN <<"raise", "ZeroDivisionError",
               [travel_time |-> travel_time, stops |-> stops,
                avg_trip_time |-> avg_trip_time,
                elevator_capacity |-> elevator_capacity]>>
        ELSE <<"return",
               [floors |-> floors, total_people |-> total_people,
                max_wait_time |-> max_wait_time, floor_height |-> floor_height,
                elevator_capacity |-> elevator_capacity,
                avg_trip_time |-> avg_trip_time,
                trips_per_elevator |-> trips_per_elevator,
                people_per_elevator |-> people_per_elevator,
                elevators_required |-> elevators_required,
                assumptions |-> [avg_stop_time |-> avg_stop_time,
                                 elevator_speed |-> elevator_speed,
                                 peak_period |-> peak_period,
                                 default_capacity |-> default_capacity]]>>

-----------------------------------------------------------------------------
(* main *)

\* what the operator answers to "Enter 1 or 2", stripped
Modes == {"1", "2", "3"}

\* floor heights the operator enters in estimation mode: halves of a metre
EstimationFloorHeights == {<<h, 2>> : h \in 1 .. MaxHalfMetres}

\* what get_optional_positive_int returns: None or a positive integer
PreferredCapacities == {None, 8, 20}

WaitTimes == {Rat(30)}

InitMain ==
    /\ elevators = <<>>
    /\ config = NoConfig
    /\ locals = NoLocals
    /\ pc = "main"
    /\ output = "menu"
    /\ calls = <<>>
    /\ estimation = NoEstimation

\* lines 212-217, 227, 233-234
SelectMode ==
    /\ pc = "main"
    /\ \E mode \in Modes :
        /\ estimation' = [estimation EXCEPT !.mode = mode]
        /\ IF mode = "1"
           THEN pc' = "estimation" /\ output' = "menu"
           ELSE IF mode = "2"
           THEN pc' = "scheduling" /\ output' = "menu"
           ELSE pc' = "exit" /\ output' = "invalid_mode"
    /\ UNCHANGED <<elevators, config, locals, calls>>

\* lines 218-226: get_positive_int and get_positive_float return any positive
\* number; an exception of calculate_elevator_requirements ends the program
Estimate ==
    /\ pc = "estimation"
    /\ \E floors \in 1 .. MaxEstFloors, total_people \in 1 .. MaxPeople,
          max_wait_time \in WaitTimes, floor_height \in EstimationFloorHeights,
          preferred_capacity \in PreferredCapacities :
        LET outcome == calculate_elevator_requirements(
                           floors, total_people, max_wait_time, floor_height,
                           preferred_capacity)
        IN  /\ estimation' = [estimation EXCEPT
                                !.floors = floors, !.total_people = total_people,
                                !.max_wait_time = max_wait_time,
                                !.floor_height = floor_height,
                                !.preferred_capacity = preferred_capacity,
                                !.outcome = outcome]
            /\ IF outcome[1] = "raise"
               THEN pc' = "crashed" /\ output' = outcome[2]
               ELSE pc' = "exit" /\ output' = "summary"
    /\ UNCHANGED <<elevators, config, locals, calls>>

NextMain == SelectMode \/ Estimate

SpecMain == InitMain /\ [][NextMain]_vars

-----------------------------------------------------------------------------
(* Claims *)

\* C1: in every state reached by a freshly created Elevator through
\* assign_request and move_to calls, idle is True iff direction is 0 iff the
\* stops set is empty.
C1_IdleDirectionStops ==
    \A i \in 1 .. Len(elevators) :
        /\ elevators[i].idle <=> elevators[i].direction = 0
        /\ elevators[i].idle <=> elevators[i].stops = {}

\* a move_to that left a stop pending, after two assignments
C1_Witness ==
    /\ Len(calls) >= 3
    /\ calls[Len(calls)].op = "move_to"
    /\ calls[Len(calls) - 1].op = "assign_request"
    /\ elevators[1].stops # {}
    /\ ~elevators[1].idle
    /\ elevators[1].direction = -1

\* the last three calls were assign_request(o, _) on an idle elevator with
\* empty stops, move_to(o), move_to(d)
PickupDropoffJustDone ==
    LET n == Len(calls)
    IN  /\ n >= 3
        /\ calls[n - 2].op = "assign_request"
        /\ calls[n - 2].fresh
        /\ calls[n - 1].op = "move_to"
        /\ calls[n - 1].floor = calls[n - 2].floor
        /\ calls[n].op = "move_to"

\* C5: after assign_request(o, direction), move_to(o), move_to(d) on an idle
\* elevator with empty stops, the elevator is idle, its direction is 0, its
\* stops set is empty and its current_floor is d.
C5_AssignMoveMoveReturnsToIdle ==
    PickupDropoffJustDone =>
        /\ elevators[1].idle
        /\ elevators[1].direction = 0
        /\ elevators[1].stops = {}
        /\ elevators[1].current_floor = calls[Len(calls)].floor

\* the sequence was run with a destination other than the origin
C5_Witness ==
    /\ PickupDropoffJustDone
    /\ calls[Len(calls)].floor # calls[Len(calls) - 1].floor
    /\ elevators[1].idle
    /\ elevators[1].current_floor = calls[Len(calls)].floor

-----------------------------------------------------------------------------
(* schedule_elevator called on any fleet *)

\* the schedule_elevator call the log holds
Called == calls # <<>> /\ calls[1].op = "schedule_elevator"

\* the elevators the claims call eligible for the logged request
Candidates ==
    {i \in 1 .. Len(elevators) :
        \/ elevators[i].idle
        \/ elevators[i].direction = (IF calls[1].direction = "up" THEN 1 ELSE -1)}

\* estimated_arrival of elevator i for the logged request
EtaOf(i) ==
    estimated_arrival(elevators[i], calls[1].request_floor, avg_stop_time,
                      calls[1].floor_height, elevator_speed)

\* C2: schedule_elevator never returns a non-idle elevator whose direction
\* differs from the request, and returns some elevator whenever at least one
\* elevator is idle or moves in the requested direction.
C2_EligibleIffIdleOrSameDirection ==
    Called =>
        /\ calls[1].best_elevator # None => calls[1].best_elevator \in Candidates
        /\ Candidates # {} => calls[1].best_elevator # None

\* a moving elevator was returned while an elevator moving the other way was
\* passed over
C2_Witness ==
    /\ Called
    /\ calls[1].best_elevator # None
    /\ ~elevators[calls[1].best_elevator].idle
    /\ \E j \in 1 .. Len(elevators) : j \notin Candidates

\* C3: the returned elevator has the least estimated_arrival among the
\* eligible elevators, the returned eta is that least value, and among
\* eligible elevators sharing it the first in the list is returned.
C3_MinimumEtaFirstWins ==
    (Called /\ Candidates # {}) =>
        LET best == calls[1].best_elevator
        IN  /\ best \in Candidates
            /\ RatEq(calls[1].best_eta, EtaOf(best))
            /\ \A j \in Candidates : RatLeq(calls[1].best_eta, EtaOf(j))
            /\ \A j \in Candidates : j < best => RatLess(calls[1].best_eta, EtaOf(j))

\* two eligible elevators share the least value and the first was returned
C3_Witness ==
    /\ Called
    /\ calls[1].best_elevator = 1
    /\ 2 \in Candidates
    /\ RatEq(EtaOf(1), EtaOf(2))
    /\ ~elevators[2].idle

\* C10: estimated_arrival is |current_floor - request_floor| * floor_height /
\* speed, plus the 10 s stop penalty iff the elevator is not idle; a
\* larger-or-equal distance never gives a smaller value, and a non-idle
\* elevator's value exceeds an idle one's at the same distance by the penalty.
C10_EstimatedArrival ==
    Called =>
        /\ calls[1].best_elevator # None =>
            LET e == elevators[calls[1].best_elevator]
                d == abs(e.current_floor - calls[1].request_floor)
                h == calls[1].floor_height
            IN  RatEq(calls[1].best_eta,
                      RatAdd(<<2 * d * h[1], 3 * h[2]>>, Rat(IF e.idle THEN 0 ELSE 10)))
        /\ \A i \in 1 .. Len(elevators) :
            LET e == elevators[i]
                f1 == calls[1].request_floor
                eta(self, f) == estimated_arrival(self, f, avg_stop_time,
                                                  calls[1].floor_height, elevator_speed)
            IN  /\ \A f2 \in HarnessFloorArgs :
                    abs(e.current_floor - f1) >= abs(e.current_floor - f2)
                        => RatLeq(eta(e, f2), eta(e, f1))
                /\ RatEq(eta([e EXCEPT !.idle = FALSE], f1),
                         RatAdd(eta([e EXCEPT !.idle = TRUE], f1), Rat(10)))

\* a non-idle elevator one floor or more away was returned: its value holds
\* both the travel time and the penalty
C10_Witness ==
    /\ Called
    /\ calls[1].best_elevator # None
    /\ ~elevators[calls[1].best_elevator].idle
    /\ elevators[calls[1].best_elevator].current_floor > calls[1].request_floor
    /\ RatLess(Rat(10), calls[1].best_eta)

-----------------------------------------------------------------------------
(* The session loop *)

\* no elevator is idle or moves in the direction of the request being served
NoneEligible ==
    \A i \in 1 .. Len(elevators) :
        /\ ~elevators[i].idle
        /\ elevators[i].direction # (IF locals.direction = "up" THEN 1 ELSE -1)

\* C4: when no elevator is eligible schedule_elevator returns None, and the
\* loop then prints the wait message, changes no elevator, keeps nothing of
\* the request and starts a new iteration.
C4_NoElevatorWaits ==
    [][(pc = "scheduled" /\ NoneEligible) =>
            /\ locals.best_elevator = None
            /\ elevators' = elevators
            /\ output' = "no_elevator"
            /\ locals' = NoLocals
            /\ calls' = calls
            /\ pc' = "loop"]_vars

\* the wait message was printed for a fleet that is not empty
C4_Witness ==
    /\ pc = "loop"
    /\ output = "no_elevator"
    /\ elevators # <<>>
    /\ ~elevators[1].idle

AllIdle == \A i \in 1 .. Len(elevators) : elevators[i].idle

Distance(i) == abs(elevators[i].current_floor - locals.request_floor)

\* C6: for a valid request issued when all elevators are idle, the elevator
\* assigned is the first-created among those nearest to the origin floor;
\* after the cycle it is at the destination and idle; and the cycle changes
\* no other elevator.
C6_NearestFirstCreatedServes ==
    /\ [](/\ (pc = "scheduled" /\ AllIdle) =>
                /\ locals.best_elevator \in 1 .. Len(elevators)
                /\ \A j \in 1 .. Len(elevators) :
                    /\ Distance(locals.best_elevator) <= Distance(j)
                    /\ j < locals.best_elevator
                        => Distance(locals.best_elevator) < Distance(j)
          /\ pc = "ask" =>
                /\ elevators[locals.best_elevator].current_floor = locals.dest_floor
                /\ elevators[locals.best_elevator].idle)
    /\ [][\A i \in 1 .. Len(elevators) :
            i # locals.best_elevator => elevators'[i] = elevators[i]]_vars

\* the second elevator was nearest, served the request and is at the
\* destination, the first elevator being elsewhere
C6_Witness ==
    /\ pc = "ask"
    /\ Len(elevators) = 2
    /\ locals.best_elevator = 2
    /\ elevators[2].current_floor = locals.dest_floor
    /\ elevators[2].idle
    /\ elevators[1].current_floor # 1

\* C7: a request from the top floor is dispatched with direction "down" and a
\* request from floor 1 with direction "up", whatever the operator entered.
C7_DirectionForcedAtBoundary ==
    /\ pc = "scheduled" =>
        /\ locals.request_floor = config.floors => locals.direction = "down"
        /\ locals.request_floor = 1 => locals.direction = "up"
    /\ pc = "assigned" =>
        /\ locals.request_floor = config.floors
            => elevators[locals.best_elevator].direction = -1
        /\ locals.request_floor = 1
            => elevators[locals.best_elevator].direction = 1

-----------------------------------------------------------------------------
(* The estimator *)

Estimated == estimation.outcome # <<>>

C9_OneFloorDividesByZero ==
    (Estimated /\ estimation.floors = 1) =>
        /\ estimation.outcome[1] = "raise"
        /\ estimation.outcome[2] = "ZeroDivisionError"
        /\ RatIsZero(estimation.outcome[3].travel_time)
        /\ estimation.outcome[3].stops = 0
        /\ RatIsZero(estimation.outcome[3].avg_trip_time)
        /\ pc = "crashed"

\* main in estimation mode ended in the error, a preferred capacity given
C9_Witness ==
    /\ pc = "crashed"
    /\ estimation.mode = "1"
    /\ estimation.floors = 1
    /\ estimation.preferred_capacity = 20
    /\ output = "ZeroDivisionError"

-----------------------------------------------------------------------------
(* Frame of the selection *)

\* C11: estimated_arrival and schedule_elevator are side-effect free: after
\* a schedule_elevator call, which calls estimated_arrival on every candidate,
\* every elevator's current_floor, direction, stops and idle flag are what
\* they were before the call.
C11_SelectionHasNoSideEffect ==
    [][(calls = <<>> /\ calls' # <<>>) => elevators' = elevators]_vars

\* an idle elevator was returned and is still idle with no stop, next to an
\* elevator that is moving
C11_Witness ==
    /\ Called
    /\ Len(elevators) = 2
    /\ calls[1].best_elevator = 2
    /\ elevators[2].idle
    /\ elevators[2].stops = {}
    /\ elevators[2].current_floor # calls[1].request_floor
    /\ ~elevators[1].idle

-----------------------------------------------------------------------------
(* Invariants of a scheduling session *)

\* the elevator serving the request of the current iteration
Serving == elevators[locals.best_elevator]

InCycle == pc \in {"assigned", "boarded", "ask"}

\* C12: current_floor changes only in move_to (the pickup and the drop-off of
\* the serving elevator); schedule_elevator, estimated_arrival and
\* assign_request leave it alone; every elevator starts at floor 1 and is
\* always at a floor in 1..floors.
C12_CurrentFloorOnlyMoves ==
    /\ \A i \in 1 .. Len(elevators) : elevators[i].current_floor = 1
    /\ [](\A i \in 1 .. Len(elevators) :
            /\ elevators[i].current_floor \in Int
            /\ 1 <= elevators[i].current_floor
            /\ elevators[i].current_floor <= config.floors)
    /\ [][\A i \in 1 .. Len(elevators) :
            elevators'[i].current_floor # elevators[i].current_floor
                => /\ pc \in {"assigned", "boarded"}
                   /\ i = locals.best_elevator
                   /\ elevators'[i].current_floor
                        = (IF pc = "assigned" THEN locals.request_floor
                                              ELSE locals.dest_floor)]_vars

\* an elevator has been moved to the top floor of a building of three floors
\* or more
C12_Witness ==
    /\ pc = "boarded"
    /\ config.floors > 2
    /\ Serving.current_floor = config.floors
    /\ locals.request_floor = config.floors

\* C13: every stops set holds at most one floor: an assignment adds the
\* origin floor to an elevator whose stops set is empty and the next move_to
\* removes it.
C13_AtMostOneStop ==
    /\ \A i \in 1 .. Len(elevators) :
        /\ Cardinality(elevators[i].stops) <= 1
        /\ elevators[i].stops # {}
            => /\ pc = "assigned"
               /\ i = locals.best_elevator
    /\ pc = "scheduled" => Serving.stops = {}
    /\ pc = "assigned" => Serving.stops = {locals.request_floor}
    /\ pc = "boarded" => Serving.stops = {}

\* the second elevator holds the origin floor as its only stop
C13_Witness ==
    /\ pc = "assigned"
    /\ locals.best_elevator = 2
    /\ elevators[2].stops = {locals.request_floor}
    /\ locals.request_floor # 1
    /\ elevators[1].stops = {}

\* C14: a request whose origin or destination is outside 1..floors, or whose
\* destination is its origin, never gets past the validation: the iteration
\* selects, assigns and moves no elevator, changes no elevator and goes back
\* to the origin-floor prompt.
C14_InvalidRequestRejected ==
    /\ [](pc \in {"scheduled", "assigned", "boarded", "ask", "done"} =>
            /\ 1 <= locals.request_floor /\ locals.request_floor <= config.floors
            /\ 1 <= locals.dest_floor /\ locals.dest_floor <= config.floors
            /\ locals.dest_floor # locals.request_floor)
    /\ [][pc = "loop" =>
            \/ pc' = "scheduled" /\ elevators' = elevators
            \/ /\ pc' = "loop"
               /\ output' \in {"invalid_floor", "invalid_destination"}
               /\ locals' = NoLocals
               /\ elevators' = elevators]_vars

\* a request was rejected after another had been served
C14_Witness ==
    /\ pc = "loop"
    /\ output = "invalid_destination"
    /\ locals.best_elevator = None
    /\ elevators[1].current_floor # 1

\* C17: at the top of the loop every elevator is idle with direction 0 and
\* empty stops, so schedule_elevator never returns None in a session and the
\* wait message is never printed.
C17_AllIdleAtLoopTop ==
    /\ pc = "loop" =>
        \A i \in 1 .. Len(elevators) :
            /\ elevators[i].idle
            /\ elevators[i].direction = 0
            /\ elevators[i].stops = {}
    /\ pc = "scheduled" => locals.best_elevator # None
    /\ output # "no_elevator"
    /\ Len(elevators) >= 1

\* the top of the loop after a served request and then a rejected one, both
\* elevators having moved
C17_Witness ==
    /\ pc = "loop"
    /\ output = "invalid_floor"
    /\ Len(elevators) = 2
    /\ elevators[1].current_floor # 1
    /\ elevators[2].current_floor # 1

\* C18: the destination is never a stop; the serving elevator is moving
\* (idle False, direction set, stops = {origin}) only between assign_request
\* and the pickup move_to, is idle with direction 0 and empty stops once it
\* has picked up, and stays so through the drop-off.
C18_MovingOnlyUntilPickup ==
    /\ \A i \in 1 .. Len(elevators) :
        /\ InCycle => locals.dest_floor \notin elevators[i].stops
        /\ ~elevators[i].idle => pc = "assigned" /\ i = locals.best_elevator
    /\ pc = "assigned" =>
        /\ ~Serving.idle
        /\ Serving.direction = (IF locals.direction = "up" THEN 1 ELSE -1)
        /\ Serving.stops = {locals.request_floor}
    /\ pc = "boarded" =>
        /\ Serving.idle
        /\ Serving.direction = 0
        /\ Serving.stops = {}
        /\ Serving.current_floor = locals.request_floor
    /\ pc = "ask" =>
        /\ Serving.idle
        /\ Serving.direction = 0
        /\ Serving.stops = {}
        /\ Serving.current_floor = locals.dest_floor

\* the requester is on board, away from floor 1, and the elevator is idle
\* before it has gone to the destination
C18_Witness ==
    /\ pc = "boarded"
    /\ Serving.idle
    /\ Serving.direction = 0
    /\ locals.request_floor > 1
    /\ Serving.current_floor # locals.dest_floor

\* C20: the loop ends only right after a served request: the continuation
\* prompt follows a complete assign/move/move cycle and nothing else, a
\* rejected iteration goes back to the origin-floor prompt, the session ends
\* on any answer other than "y", and at the end the last request has been
\* served.
C20_EndsOnlyAfterServedRequest ==
    /\ [][pc' = "ask" => pc = "boarded"]_vars
    /\ [][pc' = "boarded" => pc = "assigned"]_vars
    /\ [][pc' = "assigned" => pc = "scheduled"]_vars
    /\ [][pc' = "done" => pc = "ask"]_vars
    /\ [][pc = "loop" => pc' \in {"loop", "scheduled"}]_vars
    /\ [][pc = "scheduled" => pc' \in {"loop", "assigned"}]_vars
    /\ [][pc = "ask" /\ locals'.another # "y" => pc' = "done"]_vars
    /\ [](pc = "done" =>
            /\ locals.another # "y"
            /\ locals.best_elevator # None
            /\ Serving.current_floor = locals.dest_floor
            /\ output = "end")

\* the session ended on an answer that is neither "y" nor "n"
C20_Witness ==
    /\ pc = "done"
    /\ locals.another = "yes"
    /\ Serving.current_floor = locals.dest_floor
    /\ locals.dest_floor # 1

\* C16: after a served request "y" starts another iteration and "n" ends the
\* session, neither changing an elevator; nothing happens after the end; and
\* with an operator who eventually enters a valid request and answers "n"
\* the session terminates (a building of one floor has no valid request).
C16_LoopsUntilOperatorDeclines ==
    /\ [][pc = "ask" =>
            /\ elevators' = elevators
            /\ locals'.another = "y" => pc' = "loop"
            /\ locals'.another = "n" => pc' = "done"]_vars
    /\ [][pc # "done"]_vars
    /\ (config.floors > 1) => <>(pc = "done")

\* the session ended on "n" after two served requests or more
C16_Witness ==
    /\ pc = "done"
    /\ locals.another = "n"
    /\ Len(elevators) = 2
    /\ elevators[1].current_floor # 1
    /\ elevators[2].current_floor # 1

-----------------------------------------------------------------------------
(* Direction of one Elevator under direct calls *)

\* the call made by the step: the newest entry of the log after it
LastCall == calls'[Len(calls')]

\* C15: an assign_request sets the direction to 1 for "up" and to -1
\* otherwise, whatever stops are pending and whatever direction an earlier
\* assignment gave, and keeps the pending stops; a move_to resets the
\* direction to 0 exactly when it leaves stops empty and keeps it otherwise;
\* so the direction is 0 exactly when no stop is pending.
C15_DirectionOfLastAssignment ==
    /\ [](elevators[1].direction = 0 <=> elevators[1].stops = {})
    /\ [](elevators[1].direction \in {-1, 0, 1})
    /\ [][IF LastCall.op = "assign_request"
          THEN /\ elevators'[1].direction
                    = (IF LastCall.direction = "up" THEN 1 ELSE -1)
               /\ elevators'[1].stops = elevators[1].stops \cup {LastCall.floor}
          ELSE /\ elevators'[1].direction = 0 <=> elevators'[1].stops = {}
               /\ elevators'[1].stops # {}
                    => elevators'[1].direction = elevators[1].direction]_vars

\* two assignments in a row, up then down, to different floors: both stops are
\* pending and the direction is that of the second
C15_Witness ==
    /\ Len(calls) >= 2
    /\ calls[Len(calls) - 1].op = "assign_request"
    /\ calls[Len(calls) - 1].direction = "up"
    /\ calls[Len(calls)].op = "assign_request"
    /\ calls[Len(calls)].direction = "down"
    /\ elevators[1].stops = {calls[Len(calls) - 1].floor, calls[Len(calls)].floor}
    /\ Cardinality(elevators[1].stops) = 2
    /\ elevators[1].direction = -1

-----------------------------------------------------------------------------
(* Two sessions side by side: elevators, locals, pc and output hold one      *)
(* component per session. Both sessions run user_driven_scheduling on the    *)
(* same configuration, in lockstep, and the operator enters the same floors  *)
(* and the same continuation answer in both, and any direction in each.      *)

Side(k) == [elevators |-> elevators[k], locals |-> locals[k],
            pc |-> pc[k], output |-> output[k]]

Sides(s1, s2) ==
    /\ elevators' = <<s1.elevators, s2.elevators>>
    /\ locals' = <<s1.locals, s2.locals>>
    /\ pc' = <<s1.pc, s2.pc>>
    /\ output' = <<s1.output, s2.output>>

\* lines 171-183 in one session
ReadRequestOf(side, request_floor, direction, dest_floor) ==
    IF ~valid_floor(request_floor, config.floors)
    THEN [side EXCEPT !.locals = NoLocals, !.output = "invalid_floor",
                      !.pc = "loop"]
    ELSE IF ~valid_destination(dest_floor, request_floor, config.floors)
    THEN [side EXCEPT !.locals = NoLocals, !.output = "invalid_destination",
                      !.pc = "loop"]
    ELSE LET r == schedule_elevator(side.elevators, request_floor, direction,
                                    avg_stop_time, config.floor_height,
                                    elevator_speed)
         IN  [elevators |-> schedule_elevator_effect(side.elevators,
                                                     request_floor, direction),
              locals |-> [NoLocals EXCEPT !.request_floor = request_floor,
                                          !.direction = direction,
                                          !.dest_floor = dest_floor,
                                          !.best_elevator = r[1],
                                          !.eta = r[2]],
              pc |-> "scheduled",
              output |-> "status"]

\* lines 184-192 in one session
DispatchOf(side) ==
    IF side.locals.best_elevator = None
    THEN [side EXCEPT !.output = "no_elevator", !.pc = "loop",
                      !.locals = NoLocals]
    ELSE [side EXCEPT !.elevators[side.locals.best_elevator] =
                            assign_request(@, side.locals.request_floor,
                                           side.locals.direction),
                      !.output = "assigned",
                      !.pc = "assigned"]

\* lines 194-195 in one session
PickupOf(side) ==
    [side EXCEPT !.elevators[side.locals.best_elevator] =
                        move_to(@, side.locals.request_floor),
                 !.output = "boarded",
                 !.pc = "boarded"]

\* lines 197-204 in one session
DropoffOf(side) ==
    [side EXCEPT !.elevators[side.locals.best_elevator] =
                        move_to(@, side.locals.dest_floor),
                 !.output = "summary",
                 !.pc = "ask"]

\* lines 206-209 in one session
AskAnotherOf(side, another) ==
    IF declines(another)
    THEN [side EXCEPT !.locals.another = another, !.pc = "done",
                      !.output = "end"]
    ELSE [side EXCEPT !.locals = [NoLocals EXCEPT !.another = another],
                      !.pc = "loop", !.output = "summary"]

InitPair ==
    /\ \E floors \in 1 .. MaxFloors, num_elevators \in 1 .. MaxElevators,
          elevator_capacity \in Capacities, floor_height \in FloorHeights :
            /\ config = [floors |-> floors, num_elevators |-> num_elevators,
                         elevator_capacity |-> elevator_capacity,
                         floor_height |-> floor_height]
            /\ elevators = <<NewFleet(num_elevators, elevator_capacity),
                             NewFleet(num_elevators, elevator_capacity)>>
    /\ locals = <<NoLocals, NoLocals>>
    /\ pc = <<"loop", "loop">>
    /\ output = <<"header", "header">>
    /\ calls = <<>>
    /\ estimation = NoEstimation

PairReadRequest ==
    /\ pc = <<"loop", "loop">>
    /\ \E request_floor \in 1 .. config.floors + 1,
          dest_floor \in 1 .. config.floors + 1,
          direction1 \in Directions, direction2 \in Directions :
        Sides(ReadRequestOf(Side(1), request_floor, direction1, dest_floor),
              ReadRequestOf(Side(2), request_floor, direction2, dest_floor))
    /\ UNCHANGED <<config, calls, estimation>>

PairDispatch ==
    /\ pc = <<"scheduled", "scheduled">>
    /\ Sides(DispatchOf(Side(1)), DispatchOf(Side(2)))
    /\ UNCHANGED <<config, calls, estimation>>

PairPickup ==
    /\ pc = <<"assigned", "assigned">>
    /\ Sides(PickupOf(Side(1)), PickupOf(Side(2)))
    /\ UNCHANGED <<config, calls, estimation>>

PairDropoff ==
    /\ pc = <<"boarded", "boarded">>
    /\ Sides(DropoffOf(Side(1)), DropoffOf(Side(2)))
    /\ UNCHANGED <<config, calls, estimation>>

PairAskAnother ==
    /\ pc = <<"ask", "ask">>
    /\ \E another \in Answers :
        Sides(AskAnotherOf(Side(1), another), AskAnotherOf(Side(2), another))
    /\ UNCHANGED <<config, calls, estimation>>

NextPair ==
    PairReadRequest \/ PairDispatch \/ PairPickup \/ PairDropoff \/ PairAskAnother

SpecPair == InitPair /\ [][NextPair]_vars

\* the travel time of lines 133-134 from the serving elevator of session k to
\* the origin floor, without the stop penalty
TravelTime(k) ==
    RatDiv(RatMul(Rat(abs(elevators[k][locals[k].best_elevator].current_floor
                          - locals[k].request_floor)),
                  config.floor_height),
           elevator_speed)

\* the fleet with the direction of elevator i blanked
WithoutDirection(elevs, i) == [elevs EXCEPT ![i].direction = 0]

\* C19: two sessions on the same fleet with the same origin and destination
\* floors and any directions stay at the same position, print the same, pick
\* the same elevator and report the same eta, which is the travel time without
\* the stop penalty; their fleets differ only in the direction of the serving
\* elevator between assign_request and the pickup, and are equal after it.
C19_DirectionHasNoInfluence ==
    /\ pc[1] = pc[2]
    /\ output[1] = output[2]
    /\ locals[1].request_floor = locals[2].request_floor
    /\ locals[1].dest_floor = locals[2].dest_floor
    /\ locals[1].best_elevator = locals[2].best_elevator
    /\ locals[1].eta = locals[2].eta
    /\ pc[1] \in {"scheduled", "assigned"} =>
        /\ locals[1].best_elevator # None
        /\ \A k \in {1, 2} : RatEq(locals[k].eta, TravelTime(k))
    /\ pc[1] = "assigned" =>
        WithoutDirection(elevators[1], locals[1].best_elevator)
            = WithoutDirection(elevators[2], locals[1].best_elevator)
    /\ pc[1] # "assigned" => elevators[1] = elevators[2]

\* the second cycle or a later one of two sessions whose directions differ has
\* been served by the second elevator, away from its floor
C19_Witness ==
    /\ pc = <<"ask", "ask">>
    /\ locals[1].direction # locals[2].direction
    /\ locals[1].best_elevator = 2
    /\ locals[2].best_elevator = 2
    /\ ~RatIsZero(locals[1].eta)
    /\ elevators[1] = elevators[2]
    /\ elevators[1][1].current_floor # 1

====
